---- MODULE Spec2Model ----
(***************************************************************************)
(* Model of the maib ecommerce SDK (maib_api.py, maib_sdk.py, and the      *)
(* legacy maibapi.py, maibsdk.py, maibauth.py): request                    *)
(* validation, the operation call sequence, response-envelope handling and *)
(* callback signature validation.                                          *)
(*                                                                         *)
(* Python values are tagged records: [t |-> "none"], [t |-> "str", s],     *)
(* [t |-> "int", h], [t |-> "float", h] (h is the number in hundredths),   *)
(* [t |-> "list", es], [t |-> "dict", ...].  A key that a dict does not    *)
(* hold is the marker Absent; dict.get turns it into None.                 *)
(***************************************************************************)
EXTENDS Integers, Sequences, FiniteSets, TLC

VARIABLES pc, op, data, token, steps, response, outcome, callback_data, signature_key,
          legacy_outcome, post_data, instance, threads, created

vars == <<pc, op, data, token, steps, response, outcome, callback_data, signature_key,
          legacy_outcome, post_data, instance, threads, created>>

\* the outcome of the legacy variant (maibapi.py, maibsdk.py), the body of a
\* token request, and the state of get_instance and of the threads calling it
otherVars == <<legacy_outcome, post_data, instance, threads, created>>

(***************************************************************************)
(* Bounds of the model.                                                    *)
(***************************************************************************)
\* fields of a valid parameter bag that one input may change (validator runs)
MaxOverrides == 2
\* fields of a valid parameter bag that one input may change (operation calls)
MaxCallOverrides == 1
\* elements of an items list
MaxItems == 2
\* entries of the result mapping of a callback
MaxResultLen == 2
\* threads that call get_instance
MaxThreads == 2
\* calls of get_instance by one thread
MaxCalls == 2

(***************************************************************************)
(* Python values.                                                          *)
(***************************************************************************)
None == [t |-> "none"]
Absent == [t |-> "absent"]
\* a variable the running specification does not use
Unused == [t |-> "unused"]
OthersUnused ==
  /\ legacy_outcome = Unused
  /\ post_data = Unused
  /\ instance = Unused
  /\ threads = Unused
  /\ created = Unused
PyStr(s) == [t |-> "str", s |-> s]
PyInt(n) == [t |-> "int", h |-> 100 * n]
\* a float given in hundredths: PyFloat(1) is 0.01
PyFloat(h) == [t |-> "float", h |-> h]
PyList(es) == [t |-> "list", es |-> es]
PyDict(id, name, price, quantity) == [t |-> "dict", id |-> id, name |-> name, price |-> price, quantity |-> quantity]

IsNone(v) == v.t = "none"
IsStr(v) == v.t = "str"
IsInt(v) == v.t = "int"
IsNumber(v) == v.t \in {"int", "float"}
IsList(v) == v.t = "list"

\* dict.get(key): None when the key is absent
Get(d, key) == IF d[key].t = "absent" THEN None ELSE d[key]

Min(S) == CHOOSE x \in S : \A y \in S : x <= y

(***************************************************************************)
(* Strings of the lengths the rules distinguish.                           *)
(***************************************************************************)
S35 == "aaaaaaaaaaaaaaaaaaaaaaaaaaaaaaaaaaa"
S36 == "aaaaaaaaaaaaaaaaaaaaaaaaaaaaaaaaaaaa"
S37 == "aaaaaaaaaaaaaaaaaaaaaaaaaaaaaaaaaaaaa"
S40 == "aaaaaaaaaaaaaaaaaaaaaaaaaaaaaaaaaaaaaaaa"
S41 == "aaaaaaaaaaaaaaaaaaaaaaaaaaaaaaaaaaaaaaaaa"
S124 == "aaaaaaaaaaaaaaaaaaaaaaaaaaaaaaaaaaaaaaaaaaaaaaaaaaaaaaaaaaaaaaaaaaaaaaaaaaaaaaaaaaaaaaaaaaaaaaaaaaaaaaaaaaaaaaaaaaaaaaaaaaaa"
S125 == "aaaaaaaaaaaaaaaaaaaaaaaaaaaaaaaaaaaaaaaaaaaaaaaaaaaaaaaaaaaaaaaaaaaaaaaaaaaaaaaaaaaaaaaaaaaaaaaaaaaaaaaaaaaaaaaaaaaaaaaaaaaaa"
S128 == "aaaaaaaaaaaaaaaaaaaaaaaaaaaaaaaaaaaaaaaaaaaaaaaaaaaaaaaaaaaaaaaaaaaaaaaaaaaaaaaaaaaaaaaaaaaaaaaaaaaaaaaaaaaaaaaaaaaaaaaaaaaaaaaa"
S129 == "aaaaaaaaaaaaaaaaaaaaaaaaaaaaaaaaaaaaaaaaaaaaaaaaaaaaaaaaaaaaaaaaaaaaaaaaaaaaaaaaaaaaaaaaaaaaaaaaaaaaaaaaaaaaaaaaaaaaaaaaaaaaaaaaa"

(***************************************************************************)
(* Operations, their endpoints and required parameters (MaibApi).          *)
(***************************************************************************)
REQUIRED_PAY_PARAMS == <<"amount", "currency", "clientIp">>
REQUIRED_PAYID_PARAMS == <<"payId">>
REQUIRED_SAVE_PARAMS == <<"billerExpiry", "currency", "clientIp">>
REQUIRED_EXECUTE_RECURRING_PARAMS == <<"billerId", "amount", "currency">>
REQUIRED_EXECUTE_ONECLICK_PARAMS == <<"billerId", "amount", "currency", "clientIp">>

PayOps == {"pay", "hold", "complete", "refund", "save_recurring", "execute_recurring", "save_oneclick", "execute_oneclick"}
EntityIdOps == {"pay_info", "delete_card"}
Ops == PayOps \cup EntityIdOps

\* the required_params argument each entry point passes
RequiredParams(o) ==
  CASE o \in {"pay", "hold"} -> REQUIRED_PAY_PARAMS
    [] o \in {"complete", "refund"} -> REQUIRED_PAYID_PARAMS
    [] o \in {"save_recurring", "save_oneclick"} -> REQUIRED_SAVE_PARAMS
    [] o = "execute_recurring" -> REQUIRED_EXECUTE_RECURRING_PARAMS
    [] o = "execute_oneclick" -> REQUIRED_EXECUTE_ONECLICK_PARAMS

\* the endpoint each entry point passes
Endpoint(o) ==
  CASE o = "pay" -> "pay"
    [] o = "hold" -> "hold"
    [] o = "complete" -> "complete"
    [] o = "refund" -> "refund"
    [] o = "pay_info" -> "pay-info"
    [] o = "delete_card" -> "delete-card"
    [] o = "save_recurring" -> "savecard-recurring"
    [] o = "execute_recurring" -> "execute-recurring"
    [] o = "save_oneclick" -> "savecard-oneclick"
    [] o = "execute_oneclick" -> "execute-oneclick"

\* the HTTP method each entry point uses
Method(o) ==
  CASE o = "pay_info" -> "GET"
    [] o = "delete_card" -> "DELETE"
    [] OTHER -> "POST"

(***************************************************************************)
(* Outcomes: a return value or a raised exception.  kind and field are     *)
(* what the exception message says ("Missing required parameter: <field>", *)
(* "Invalid '<field>' parameter ...").                                     *)
(***************************************************************************)
Ok == [exc |-> "", kind |-> "Ok", field |-> ""]
PaymentException(kind, field) == [exc |-> "MaibPaymentException", kind |-> kind, field |-> field]
Missing(field) == PaymentException("MissingParameter", field)
Invalid(field) == PaymentException("InvalidParameter", field)
\* item.get on an element that has no get attribute
AttributeError == [exc |-> "AttributeError", kind |-> "AttributeError", field |-> ""]

\* the outcome of the first check that does not pass: the code raises there
FirstFailure(checks) ==
  LET bad == {i \in 1..Len(checks) : checks[i].kind # "Ok"}
  IN IF bad = {} THEN Ok ELSE checks[Min(bad)]

(***************************************************************************)
(* MaibApi.__validate_pay_params, check by check.                          *)
(***************************************************************************)
CheckBillerId(d) ==
  LET biller_id == Get(d, "billerId")
  IN IF ~IsNone(biller_id) /\ (~IsStr(biller_id) \/ Len(biller_id.s) # 36)
     THEN Invalid("billerId") ELSE Ok

CheckBillerExpiry(d) ==
  LET biller_expiry == Get(d, "billerExpiry")
  IN IF ~IsNone(biller_expiry) /\ (~IsStr(biller_expiry) \/ Len(biller_expiry.s) # 4)
     THEN Invalid("billerExpiry") ELSE Ok

CheckPayId(d) ==
  LET pay_id == Get(d, "payId")
  IN IF ~IsNone(pay_id) /\ (~IsStr(pay_id) \/ Len(pay_id.s) > 36)
     THEN Invalid("payId") ELSE Ok

\* confirm_amount < 0.01
CheckConfirmAmount(d) ==
  LET confirm_amount == Get(d, "confirmAmount")
  IN IF ~IsNone(confirm_amount) /\ (~IsNumber(confirm_amount) \/ confirm_amount.h < 1)
     THEN Invalid("confirmAmount") ELSE Ok

\* mutant: amount <= 1
CheckAmountOffByOne(d) ==
  LET amount == Get(d, "amount")
  IN IF ~IsNone(amount) /\ (~IsNumber(amount) \/ amount.h <= 100)
     THEN Invalid("amount") ELSE Ok

\* amount < 1
CheckAmount(d) ==
  LET amount == Get(d, "amount")
  IN IF ~IsNone(amount) /\ (~IsNumber(amount) \/ amount.h < 100)
     THEN Invalid("amount") ELSE Ok

\* refund_amount < 0.01
CheckRefundAmount(d) ==
  LET refund_amount == Get(d, "refundAmount")
  IN IF ~IsNone(refund_amount) /\ (~IsNumber(refund_amount) \/ refund_amount.h < 1)
     THEN Invalid("refundAmount") ELSE Ok

\* mutant: the currency is compared after upper-casing it
CheckCurrencyAnyCase(d) ==
  LET currency == Get(d, "currency")
  IN IF ~IsNone(currency) /\ (~IsStr(currency) \/ currency.s \notin {"MDL", "EUR", "USD", "mdl", "eur", "usd", "Mdl", "Eur", "Usd"})
     THEN Invalid("currency") ELSE Ok

CheckCurrency(d) ==
  LET currency == Get(d, "currency")
  IN IF ~IsNone(currency) /\ (~IsStr(currency) \/ currency.s \notin {"MDL", "EUR", "USD"})
     THEN Invalid("currency") ELSE Ok

CheckClientIp(d) ==
  LET client_ip == Get(d, "clientIp")
  IN IF ~IsNone(client_ip) /\ ~IsStr(client_ip)
     THEN Invalid("clientIp") ELSE Ok

CheckLanguage(d) ==
  LET language == Get(d, "language")
  IN IF ~IsNone(language) /\ (~IsStr(language) \/ Len(language.s) # 2)
     THEN Invalid("language") ELSE Ok

CheckDescription(d) ==
  LET description == Get(d, "description")
  IN IF ~IsNone(description) /\ (~IsStr(description) \/ Len(description.s) > 124)
     THEN Invalid("description") ELSE Ok

CheckClientName(d) ==
  LET client_name == Get(d, "clientName")
  IN IF ~IsNone(client_name) /\ (~IsStr(client_name) \/ Len(client_name.s) > 128)
     THEN Invalid("clientName") ELSE Ok

CheckEmail(d) ==
  LET email == Get(d, "email")
  IN IF ~IsNone(email) /\ ~IsStr(email)
     THEN Invalid("email") ELSE Ok

CheckPhone(d) ==
  LET phone == Get(d, "phone")
  IN IF ~IsNone(phone) /\ (~IsStr(phone) \/ Len(phone.s) > 40)
     THEN Invalid("phone") ELSE Ok

CheckOrderId(d) ==
  LET order_id == Get(d, "orderId")
  IN IF ~IsNone(order_id) /\ (~IsStr(order_id) \/ Len(order_id.s) > 36)
     THEN Invalid("orderId") ELSE Ok

CheckDelivery(d) ==
  LET delivery == Get(d, "delivery")
  IN IF ~IsNone(delivery) /\ (~IsNumber(delivery) \/ delivery.h < 0)
     THEN Invalid("delivery") ELSE Ok

CheckItemId(item) ==
  LET item_id == Get(item, "id")
  IN IF ~IsNone(item_id) /\ (~IsStr(item_id) \/ Len(item_id.s) > 36)
     THEN Invalid("items.id") ELSE Ok

CheckItemName(item) ==
  LET item_name == Get(item, "name")
  IN IF ~IsNone(item_name) /\ (~IsStr(item_name) \/ Len(item_name.s) > 128)
     THEN Invalid("items.name") ELSE Ok

CheckItemPrice(item) ==
  LET item_price == Get(item, "price")
  IN IF ~IsNone(item_price) /\ (~IsNumber(item_price) \/ item_price.h < 0)
     THEN Invalid("items.price") ELSE Ok

CheckItemQuantity(item) ==
  LET quantity == Get(item, "quantity")
  IN IF ~IsNone(quantity) /\ (~IsInt(quantity) \/ quantity.h < 0)
     THEN Invalid("items.quantity") ELSE Ok

\* one pass of the loop body; an element without get raises AttributeError
CheckItem(item) ==
  IF item.t # "dict" THEN AttributeError
  ELSE FirstFailure(<<CheckItemId(item), CheckItemName(item), CheckItemPrice(item), CheckItemQuantity(item)>>)

\* mutant: only the first element is checked
CheckItemsFirstOnly(d) ==
  LET items == Get(d, "items")
  IN IF IsNone(items) THEN Ok
     ELSE IF ~IsList(items) \/ Len(items.es) = 0 THEN Invalid("items")
     ELSE CheckItem(items.es[1])

CheckItems(d) ==
  LET items == Get(d, "items")
  IN IF IsNone(items) THEN Ok
     ELSE IF ~IsList(items) \/ Len(items.es) = 0 THEN Invalid("items")
     ELSE FirstFailure([i \in 1..Len(items.es) |-> CheckItem(items.es[i])])

CheckCallbackUrl(d) ==
  LET callback_url == Get(d, "callbackUrl")
  IN IF ~IsNone(callback_url) /\ ~IsStr(callback_url)
     THEN Invalid("callbackUrl") ELSE Ok

CheckOkUrl(d) ==
  LET ok_url == Get(d, "okUrl")
  IN IF ~IsNone(ok_url) /\ ~IsStr(ok_url)
     THEN Invalid("okUrl") ELSE Ok

CheckFailUrl(d) ==
  LET fail_url == Get(d, "failUrl")
  IN IF ~IsNone(fail_url) /\ ~IsStr(fail_url)
     THEN Invalid("failUrl") ELSE Ok

\* the type and format checks in the order the code makes them
FormatChecks(d) ==
  <<CheckBillerId(d), CheckBillerExpiry(d), CheckPayId(d), CheckConfirmAmount(d),
    CheckAmount(d), CheckRefundAmount(d), CheckCurrency(d), CheckClientIp(d),
    CheckLanguage(d), CheckDescription(d), CheckClientName(d), CheckEmail(d),
    CheckPhone(d), CheckOrderId(d), CheckDelivery(d), CheckItems(d),
    CheckCallbackUrl(d), CheckOkUrl(d), CheckFailUrl(d)>>

\* mutant: the loop tests "param not in data", so a null value counts as given
CheckRequiredKeyOnly(d, required_params) ==
  FirstFailure([i \in 1..Len(required_params) |->
                 IF d[required_params[i]].t = "absent" THEN Missing(required_params[i]) ELSE Ok])

\* the loop over required_params: the first one data.get returns None for
CheckRequired(d, required_params) ==
  FirstFailure([i \in 1..Len(required_params) |->
                 IF IsNone(Get(d, required_params[i])) THEN Missing(required_params[i]) ELSE Ok])

ValidatePayParams(d, required_params) ==
  LET required == CheckRequired(d, required_params)
  IN IF required.kind # "Ok" THEN required ELSE FirstFailure(FormatChecks(d))

(***************************************************************************)
(* Inputs: parameter bags.  A bag maps every field name to a value or to   *)
(* Absent.  The bags tried are the valid bag of an operation with up to    *)
(* MaxOverrides fields replaced by values of the field's pool.             *)
(***************************************************************************)
FieldOrder ==
  <<"billerId", "billerExpiry", "payId", "confirmAmount", "amount", "refundAmount",
    "currency", "clientIp", "language", "description", "clientName", "email",
    "phone", "orderId", "delivery", "items", "callbackUrl", "okUrl", "failUrl">>

RuleFields == {FieldOrder[i] : i \in 1..Len(FieldOrder)}
\* "extra" is a key no rule names
BagFields == RuleFields \cup {"extra"}

NoSub == PyDict(Absent, Absent, Absent, Absent)

\* elements of an items list: mappings with and without violations, and a
\* string, a number and null
ElemPool ==
  { NoSub,
    PyDict(PyStr("sku"), PyStr("name"), PyInt(0), PyInt(0)),
    PyDict(PyStr(S37), Absent, Absent, Absent),
    PyDict(Absent, PyStr(S129), Absent, PyInt(-1)),
    PyDict(None, Absent, PyFloat(-1), Absent),
    PyDict(Absent, Absent, PyFloat(0), PyFloat(50)),
    PyDict(Absent, Absent, PyFloat(1), PyInt(-1)),
    PyDict(Absent, Absent, Absent, PyInt(1)),
    PyStr("sku"), PyInt(3), None }

ItemLists == UNION {[1..k -> ElemPool] : k \in 0..MaxItems}

NumberPool(bound) ==
  { PyFloat(bound - 1), PyFloat(bound), PyFloat(bound + 1),
    PyInt(-1), PyInt(0), PyInt(1), PyInt(2), PyStr("1") }

UrlPool == {PyStr("https://example.com/cb"), PyStr(""), PyInt(1)}

\* the values tried for a field, besides leaving it out and None
Pool(f) ==
  CASE f = "billerId" -> {PyStr(S36), PyStr(S35), PyStr(S37), PyInt(1)}
    [] f = "billerExpiry" -> {PyStr("1225"), PyStr("12255"), PyInt(1225)}
    [] f = "payId" -> {PyStr(S36), PyStr(""), PyStr(S37), PyInt(1)}
    [] f = "confirmAmount" -> NumberPool(1)
    [] f = "amount" -> NumberPool(100)
    [] f = "refundAmount" -> NumberPool(1)
    [] f = "currency" -> {PyStr("MDL"), PyStr("EUR"), PyStr("USD"), PyStr("mdl"), PyStr("Usd"), PyStr("RON"), PyStr(""), PyInt(1)}
    [] f = "clientIp" -> {PyStr("127.0.0.1"), PyStr(""), PyInt(1)}
    [] f = "language" -> {PyStr("ro"), PyStr("ron"), PyInt(1)}
    [] f = "description" -> {PyStr(S124), PyStr(S125), PyInt(1)}
    [] f = "clientName" -> {PyStr(S128), PyStr(S129), PyInt(1)}
    [] f = "email" -> {PyStr("a@example.com"), PyStr(""), PyInt(1)}
    [] f = "phone" -> {PyStr(S40), PyStr(S41), PyInt(1)}
    [] f = "orderId" -> {PyStr(S36), PyStr(S37), PyInt(1)}
    [] f = "delivery" -> NumberPool(0)
    [] f = "items" -> {PyList(es) : es \in ItemLists} \cup {PyStr("sku")}
    [] f = "callbackUrl" -> UrlPool
    [] f = "okUrl" -> UrlPool
    [] f = "failUrl" -> UrlPool
    [] f = "extra" -> {PyStr(S129), PyInt(-1)}

\* a value of the field that passes every check
GoodValue(f) ==
  CASE f = "billerId" -> PyStr(S36)
    [] f = "billerExpiry" -> PyStr("1225")
    [] f = "payId" -> PyStr(S36)
    [] f = "amount" -> PyInt(1)
    [] f = "currency" -> PyStr("MDL")
    [] f = "clientIp" -> PyStr("127.0.0.1")

\* the bag of operation o that holds exactly its required fields, all valid
ValidBag(o) ==
  LET req == RequiredParams(o)
  IN [f \in BagFields |-> IF \E i \in 1..Len(req) : req[i] = f THEN GoodValue(f) ELSE Absent]

Overrides == UNION {{<<f, v>> : v \in Pool(f) \cup {None, Absent}} : f \in BagFields}

RECURSIVE BagsFrom(_, _)
BagsFrom(base, k) ==
  IF k = 0 THEN {base}
  ELSE LET prev == BagsFrom(base, k - 1)
       IN prev \cup {[b EXCEPT ![o[1]] = o[2]] : b \in prev, o \in Overrides}

(***************************************************************************)
(* The validator as a function of its inputs: the initial state holds an   *)
(* operation and a bag, the one action applies __validate_pay_params.      *)
(***************************************************************************)
InitValidate ==
  /\ pc = "validate_input"
  /\ op \in PayOps
  /\ data \in BagsFrom(ValidBag(op), MaxOverrides)
  /\ token = Unused
  /\ steps = <<>>
  /\ response = Unused
  /\ outcome = Unused
  /\ callback_data = Unused
  /\ signature_key = Unused
  /\ OthersUnused

ApplyValidate ==
  /\ pc = "validate_input"
  /\ pc' = "validate_done"
  /\ outcome' = ValidatePayParams(data, RequiredParams(op))
  /\ UNCHANGED <<op, data, token, steps, response, callback_data, signature_key>>
  /\ UNCHANGED otherVars

NextValidate == ApplyValidate

SpecValidate == InitValidate /\ [][NextValidate]_vars

(***************************************************************************)
(* MaibApi.__validate_access_token and __validate_id_param.                *)
(***************************************************************************)
\* Python truth value: None, "", 0 and [] are false
Falsy(v) ==
  \/ v.t = "none"
  \/ (v.t = "str" /\ v.s = "")
  \/ (v.t \in {"int", "float"} /\ v.h = 0)
  \/ (v.t = "list" /\ v.es = <<>>)

\* len(v) is defined
HasLen(v) == v.t \in {"str", "list"}

TypeError == [exc |-> "TypeError", kind |-> "TypeError", field |-> ""]

\* mutant: the token is not tested
ValidateAccessTokenAlways(tk) == Ok

\* "not token or len(token) == 0"
ValidateAccessToken(tk) ==
  IF Falsy(tk) THEN PaymentException("InvalidToken", "")
  ELSE IF ~HasLen(tk) THEN TypeError
  ELSE Ok

\* "not entity_id", then "len(entity_id) == 0"
ValidateIdParam(entity_id) ==
  IF Falsy(entity_id) THEN PaymentException("MissingId", "")
  ELSE IF ~HasLen(entity_id) THEN TypeError
  ELSE Ok

(***************************************************************************)
(* MaibSdk.send_request and MaibSdk.handle_response.                       *)
(***************************************************************************)
PyBool(b) == [t |-> "bool", b |-> b]
\* a JSON object with the keys of a response envelope
Envelope(ok, result, errors) == [t |-> "envelope", ok |-> ok, result |-> result, errors |-> errors]
\* an element of the errors array
ErrorObj(code, message) == [t |-> "error", errorCode |-> code, errorMessage |-> message]
\* a result object
ResultObj(id) == [t |-> "result", payId |-> id]

Return(v) == [exc |-> "", kind |-> "Return", value |-> v]
HttpError(endpoint) == [exc |-> "MaibPaymentException", kind |-> "HttpError", field |-> "", endpoint |-> endpoint]
MissingResult(endpoint) == [exc |-> "MaibPaymentException", kind |-> "MissingResult", field |-> "", endpoint |-> endpoint]
GatewayError(endpoint, error) ==
  [exc |-> "MaibPaymentException", kind |-> "GatewayError", field |-> "", endpoint |-> endpoint,
   code |-> Get(error, "errorCode"), message |-> Get(error, "errorMessage")]
MalformedEnvelope(endpoint) == [exc |-> "MaibPaymentException", kind |-> "MalformedEnvelope", field |-> "", endpoint |-> endpoint]
IndexError == [exc |-> "IndexError", kind |-> "IndexError", field |-> ""]

\* what requests.request and response.json() can do
TransportBehaviours(bodies) ==
  {[kind |-> "network_failure"], [kind |-> "http_error_status"], [kind |-> "invalid_json"]}
    \cup {[kind |-> "json", body |-> b] : b \in bodies}

\* MaibSdk.send_request: an exception of requests, None for a response that is
\* not ok, else the parsed JSON
SendRequest(behaviour) ==
  CASE behaviour.kind = "network_failure" -> [raised |-> TRUE]
    [] behaviour.kind = "http_error_status" -> [raised |-> FALSE, value |-> None]
    [] behaviour.kind = "invalid_json" -> [raised |-> TRUE]
    [] behaviour.kind = "json" -> [raised |-> FALSE, value |-> behaviour.body]

\* mutant: the error reported is the last of the array
HandleResponseLastError(resp, endpoint) ==
  IF resp.t # "envelope" THEN AttributeError
  ELSE LET response_ok == Get(resp, "ok")
           response_result == Get(resp, "result")
           response_errors == Get(resp, "errors")
       IN IF response_ok.t = "bool" /\ response_ok.b
          THEN IF ~IsNone(response_result) THEN Return(response_result)
               ELSE MissingResult(endpoint)
          ELSE IF ~IsNone(response_errors)
               THEN IF ~IsList(response_errors) THEN TypeError
                    ELSE IF Len(response_errors.es) = 0 THEN IndexError
                    ELSE IF response_errors.es[Len(response_errors.es)].t # "error" THEN AttributeError
                    ELSE GatewayError(endpoint, response_errors.es[Len(response_errors.es)])
               ELSE MalformedEnvelope(endpoint)

HandleResponse(resp, endpoint) ==
  IF resp.t # "envelope" THEN AttributeError
  ELSE LET response_ok == Get(resp, "ok")
           response_result == Get(resp, "result")
           response_errors == Get(resp, "errors")
       IN IF response_ok.t = "bool" /\ response_ok.b
          THEN IF ~IsNone(response_result) THEN Return(response_result)
               ELSE MissingResult(endpoint)
          ELSE IF ~IsNone(response_errors)
               THEN IF ~IsList(response_errors) THEN TypeError
                    ELSE IF Len(response_errors.es) = 0 THEN IndexError
                    ELSE IF response_errors.es[1].t # "error" THEN AttributeError
                    ELSE GatewayError(endpoint, response_errors.es[1])
               ELSE MalformedEnvelope(endpoint)

(***************************************************************************)
(* One operation call: MaibApi.__execute_pay_operation and                 *)
(* __execute_entity_id_operation, step by step.                            *)
(***************************************************************************)
\* "except MaibPaymentException as ex: raise MaibPaymentException(f'Invalid
\* request: {ex}') from ex"; any other exception passes through
InvalidRequest(ex) ==
  IF ex.exc = "MaibPaymentException"
  THEN [exc |-> "MaibPaymentException", kind |-> "InvalidRequest", field |-> "", cause |-> ex]
  ELSE ex

Tokens == {None, PyStr(""), PyStr("token")}
EntityIds == {None, PyStr(""), PyStr(S36)}

E1 == ErrorObj(PyStr("E1"), PyStr("bad"))
E2 == ErrorObj(PyStr("E2"), PyStr("worse"))

ResponseBodies ==
  {Envelope(ok, result, errors) :
     ok \in {Absent, PyBool(TRUE), PyBool(FALSE), PyStr("true")},
     result \in {Absent, ResultObj(PyStr("p1"))},
     errors \in {Absent, PyList(<<>>), PyList(<<E1>>), PyList(<<E1, E2>>), PyList(<<E2>>)}}

Init ==
  /\ pc = "idle"
  /\ op = Unused
  /\ data = Unused
  /\ token = Unused
  /\ steps = <<>>
  /\ response = Unused
  /\ outcome = Unused
  /\ callback_data = Unused
  /\ signature_key = Unused
  /\ OthersUnused

\* an entry point is called with a parameter bag (or an entity id) and a token
Call ==
  /\ pc = "idle"
  /\ \E o \in Ops :
       /\ op' = o
       /\ data' \in IF o \in PayOps THEN BagsFrom(ValidBag(o), MaxCallOverrides) ELSE EntityIds
  /\ token' \in Tokens
  /\ pc' = "validate"
  /\ UNCHANGED <<steps, response, outcome, callback_data, signature_key>>
  /\ UNCHANGED otherVars

ValidateStep ==
  /\ pc = "validate"
  /\ steps' = Append(steps, "validate")
  /\ LET r == IF op \in PayOps THEN ValidatePayParams(data, RequiredParams(op)) ELSE ValidateIdParam(data)
     IN IF r.kind = "Ok"
        THEN pc' = "token" /\ UNCHANGED outcome
        ELSE pc' = "done" /\ outcome' = InvalidRequest(r)
  /\ UNCHANGED <<op, data, token, response, callback_data, signature_key>>
  /\ UNCHANGED otherVars

TokenStep ==
  /\ pc = "token"
  /\ steps' = Append(steps, "token")
  /\ LET r == ValidateAccessToken(token)
     IN IF r.kind = "Ok"
        THEN pc' = "send" /\ UNCHANGED outcome
        ELSE pc' = "done" /\ outcome' = InvalidRequest(r)
  /\ UNCHANGED <<op, data, token, response, callback_data, signature_key>>
  /\ UNCHANGED otherVars

\* MaibApi.__send_request up to the return of the transport
SendStep ==
  /\ pc = "send"
  /\ steps' = Append(steps, "http")
  /\ \E behaviour \in TransportBehaviours(ResponseBodies) :
       LET r == SendRequest(behaviour)
       IN IF r.raised
          THEN pc' = "done" /\ outcome' = InvalidRequest(HttpError(Endpoint(op))) /\ UNCHANGED response
          ELSE pc' = "handle" /\ response' = r.value /\ UNCHANGED outcome
  /\ UNCHANGED <<op, data, token, callback_data, signature_key>>
  /\ UNCHANGED otherVars

HandleStep ==
  /\ pc = "handle"
  /\ steps' = Append(steps, "envelope")
  /\ pc' = "done"
  /\ outcome' = InvalidRequest(HandleResponse(response, Endpoint(op)))
  /\ UNCHANGED <<op, data, token, response, callback_data, signature_key>>
  /\ UNCHANGED otherVars

\* the call has returned or raised; the next call starts afresh
Finish ==
  /\ pc = "done"
  /\ pc' = "idle"
  /\ op' = Unused /\ data' = Unused /\ token' = Unused
  /\ steps' = <<>> /\ response' = Unused /\ outcome' = Unused
  /\ UNCHANGED <<callback_data, signature_key>>
  /\ UNCHANGED otherVars

Next == Call \/ ValidateStep \/ TokenStep \/ SendStep \/ HandleStep \/ Finish

Spec == Init /\ [][Next]_vars

(***************************************************************************)
(* MaibSdk.validate_callback_signature.  The strings it works on are given *)
(* character by character (PyText), since it sorts keys, joins values and  *)
(* compares signatures.  A mapping is the sequence of its <<key, value>>   *)
(* pairs in insertion order, as a Python dict keeps them.                  *)
(***************************************************************************)
PyText(cs) == [t |-> "text", s |-> cs]
Mapping(items) == [t |-> "mapping", items |-> items]
CallbackData(signature, result) == [t |-> "callback", signature |-> signature, result |-> result]

\* runs of characters with consecutive code points; "U+00E9" stands for the
\* one character e-acute, which is not ASCII
CodeRuns ==
  { [first |-> 43, chars |-> <<"+">>],
    [first |-> 45, chars |-> <<"-", ".", "/">>],
    [first |-> 48, chars |-> <<"0", "1", "2", "3", "4", "5", "6", "7", "8", "9">>],
    [first |-> 58, chars |-> <<":">>],
    [first |-> 61, chars |-> <<"=">>],
    [first |-> 65, chars |-> <<"A", "B", "C", "D", "E", "F", "G", "H", "I", "J", "K", "L", "M", "N", "O", "P", "Q", "R", "S", "T", "U", "V", "W", "X", "Y", "Z">>],
    [first |-> 97, chars |-> <<"a", "b", "c", "d", "e", "f", "g", "h", "i", "j", "k", "l", "m", "n", "o", "p", "q", "r", "s", "t", "u", "v", "w", "x", "y", "z">>],
    [first |-> 233, chars |-> <<"U+00E9">>] }

\* ord(c)
Ord(c) ==
  LET run == CHOOSE r \in CodeRuns : \E i \in 1..Len(r.chars) : r.chars[i] = c
      pos == CHOOSE i \in 1..Len(run.chars) : run.chars[i] = c
  IN run.first + pos - 1

\* Python's truth value of the values a callback holds
FalsyCallbackValue(v) ==
  \/ v.t \in {"none", "absent"}
  \/ (v.t = "text" /\ v.s = <<>>)
  \/ (v.t = "mapping" /\ v.items = <<>>)
  \/ (v.t \in {"int", "float"} /\ v.h = 0)

\* u < v for str: by code point, a proper prefix first
RECURSIVE TextLess(_, _)
TextLess(u, v) ==
  IF v = <<>> THEN FALSE
  ELSE IF u = <<>> THEN TRUE
  ELSE IF Ord(u[1]) # Ord(v[1]) THEN Ord(u[1]) < Ord(v[1])
  ELSE TextLess(Tail(u), Tail(v))

\* the sequence without its element at position i
RemoveAt(seq, i) == SubSeq(seq, 1, i - 1) \o SubSeq(seq, i + 1, Len(seq))

\* mutant: the items are taken in insertion order
Unsorted(items) == items

\* sorted(callback_result.items()): by key, keys of a dict being distinct
RECURSIVE Sorted(_)
Sorted(items) ==
  IF items = <<>> THEN <<>>
  ELSE LET i == CHOOSE j \in 1..Len(items) :
                  \A m \in 1..Len(items) : m # j => TextLess(items[j][1].s, items[m][1].s)
       IN <<items[i]>> \o Sorted(RemoveAt(items, i))

RECURSIVE Digits(_)
Digits(n) ==
  LET d == <<"0", "1", "2", "3", "4", "5", "6", "7", "8", "9">>
  IN IF n < 10 THEN <<d[n + 1]>> ELSE Digits(n \div 10) \o <<d[(n % 10) + 1]>>

\* str(value) of a str, an int or None
StrOf(v) ==
  CASE v.t = "text" -> v.s
    [] v.t = "int" -> IF v.h < 0 THEN <<"-">> \o Digits((0 - v.h) \div 100) ELSE Digits(v.h \div 100)
    [] v.t = "none" -> <<"N", "o", "n", "e">>

\* mutant: str(value) for every value, None included
StrOrEmptyNoneAsText(v) == StrOf(v)

\* mutant: the condition is inverted, every value but None gives ''
StrOrEmptyInverted(v) == IF v.t = "none" THEN StrOf(v) ELSE <<>>

\* "str(value) if value is not None else ''"
StrOrEmpty(v) == IF v.t # "none" THEN StrOf(v) ELSE <<>>

\* ':'.join(parts)
RECURSIVE Join(_)
Join(parts) ==
  IF parts = <<>> THEN <<>>
  ELSE IF Len(parts) = 1 THEN parts[1]
  ELSE parts[1] \o <<":">> \o Join(Tail(parts))

\* width of a digest in characters: no sign string of the model is longer
DigestLen == 5 * (MaxResultLen + 1)

\* the base64 alphabet
Base64Chars ==
  <<"A", "B", "C", "D", "E", "F", "G", "H", "I", "J", "K", "L", "M", "N", "O", "P", "Q", "R", "S", "T", "U", "V", "W", "X", "Y", "Z", "a", "b", "c", "d", "e", "f", "g", "h", "i", "j", "k", "l", "m", "n", "o", "p", "q", "r", "s", "t", "u", "v", "w", "x", "y", "z", "0", "1", "2", "3", "4", "5", "6", "7", "8", "9", "+", "/">>

\* the characters a sign string of the model is made of
SignChars == <<"-", "0", "1", "2", "3", "4", "5", "6", "7", "8", "9", ":", "B", "N", "a", "b", "e", "k", "n", "o", "x", "y">>

\* the base64 character that stands for a character of a sign string
DigestChar(c) == Base64Chars[CHOOSE i \in 1..Len(SignChars) : SignChars[i] = c]

\* base64.b64encode(hashlib.sha256(sign_string.encode()).digest()).decode(): a
\* string of fixed width over the base64 alphabet; SHA-256 is taken as free of
\* collisions on the sign strings of the model (one character per character,
\* then padding)
Sha256Base64(sign_string) ==
  [i \in 1..DigestLen |-> IF i <= Len(sign_string) THEN DigestChar(sign_string[i]) ELSE "="]

IsAscii(cs) == \A i \in 1..Len(cs) : Ord(cs[i]) < 128

\* hmac.compare_digest(a, b) with a a str: TypeError unless b is an ASCII str
CompareDigest(a, b) ==
  IF b.t # "text" \/ ~IsAscii(a) \/ ~IsAscii(b.s) THEN TypeError
  ELSE Return(a = b.s)

ValidateCallbackSignature(cb, key) ==
  IF FalsyCallbackValue(key) THEN PaymentException("InvalidSignatureKey", "")
  ELSE LET callback_signature == Get(cb, "signature")
           callback_result == Get(cb, "result")
       IN IF FalsyCallbackValue(callback_signature) \/ FalsyCallbackValue(callback_result)
          THEN PaymentException("MissingSignatureData", "")
          ELSE IF callback_result.t # "mapping" THEN AttributeError
          ELSE IF key.t # "text" THEN TypeError
          ELSE LET sorted_callback_result == Sorted(callback_result.items)
                   sorted_callback_values ==
                     [i \in 1..Len(sorted_callback_result) |-> StrOrEmpty(sorted_callback_result[i][2])]
                       \o <<key.s>>
                   sign_string == Join(sorted_callback_values)
                   calculated_signature == Sha256Base64(sign_string)
               IN CompareDigest(calculated_signature, callback_signature)

(***************************************************************************)
(* The legacy variant, MAIBSDK.validate_callback_signature (maibsdk.py).   *)
(***************************************************************************)
KeyError == [exc |-> "KeyError", kind |-> "KeyError", field |-> ""]

\* str(value) for every value
LegacyStr(v) == StrOf(v)

\* "calculated_signature == callback_signature": False for a value that is not
\* a str
LegacyEquals(a, b) == Return(b.t = "text" /\ a = b.s)

LegacyValidateCallbackSignature(cb, key) ==
  LET callback_signature == Get(cb, "signature")
  IN IF FalsyCallbackValue(callback_signature) THEN PaymentException("MissingSignatureData", "")
     ELSE IF cb.result.t = "absent" THEN KeyError
     ELSE IF cb.result.t # "mapping" THEN AttributeError
     ELSE IF key.t # "text" THEN TypeError
     ELSE LET sorted_callback_result == Sorted(cb.result.items)
              sorted_callback_values ==
                [i \in 1..Len(sorted_callback_result) |-> LegacyStr(sorted_callback_result[i][2])]
                  \o <<key.s>>
              sign_string == Join(sorted_callback_values)
              calculated_signature == Sha256Base64(sign_string)
          IN LegacyEquals(calculated_signature, callback_signature)

(***************************************************************************)
(* Inputs of the callback verifier.  The gateway signs a result mapping    *)
(* with the shared secret as its documentation (and section 4.2 of the     *)
(* specification) says: the values in the order of their keys, null as the *)
(* empty string, then the secret, joined by ':', hashed and encoded.       *)
(***************************************************************************)
\* how many keys of the mapping come before key number i
KeysBefore(items, i) == Cardinality({j \in 1..Len(items) : TextLess(items[j][1].s, items[i][1].s)})

\* the value whose key has n keys before it
ValueOfRank(items, n) == items[CHOOSE i \in 1..Len(items) : KeysBefore(items, i) = n][2]

GatewayText(v) == IF v.t = "none" THEN <<>> ELSE StrOf(v)

RECURSIVE GatewayPrefix(_, _)
\* the first n values in key order, each followed by the separator
GatewayPrefix(items, n) ==
  IF n = 0 THEN <<>>
  ELSE GatewayPrefix(items, n - 1) \o GatewayText(ValueOfRank(items, n - 1)) \o <<":">>

GatewaySignature(items, secret) == Sha256Base64(GatewayPrefix(items, Len(items)) \o secret)

KeyPool == {PyText(<<"a">>), PyText(<<"a", "b">>), PyText(<<"B">>)}
ValuePool == {None, PyText(<<>>), PyText(<<"x">>), PyText(<<"x", ":", "y">>), PyInt(12), PyText(<<"1", "2">>)}
SecretPool == {PyText(<<"k">>), PyText(<<"x", ":", "k">>), PyText(<<>>), None}

\* sequences of up to n <<key, value>> pairs with distinct keys
RECURSIVE ResultItems(_)
ResultItems(n) ==
  IF n = 0 THEN {<<>>}
  ELSE LET prev == ResultItems(n - 1)
       IN prev \cup {Append(items, <<k, v>>) :
                       items \in {p \in prev : Len(p) = n - 1},
                       k \in KeyPool, v \in ValuePool}

DistinctKeys(items) == \A i, j \in 1..Len(items) : i # j => items[i][1] # items[j][1]

ResultPool == {Mapping(items) : items \in {p \in ResultItems(MaxResultLen) : DistinctKeys(p)}} \cup {Absent}

\* the signature with its character at position i replaced by c
Altered(sig, i, c) == [sig EXCEPT ![i] = c]

\* signatures tried for a result and a secret: the gateway's, that one with one
\* character changed, and a few that have nothing to do with it
SignaturePool(result, secret) ==
  {Absent, PyText(<<>>), PyText(<<"Q", "=">>)}
    \cup IF result.t = "mapping" /\ secret.t = "text"
         THEN LET sig == GatewaySignature(result.items, secret.s)
              IN {PyText(sig)} \cup
                 UNION {{PyText(Altered(sig, i, c)) : c \in {"Z", "U+00E9"} \ {sig[i]}} : i \in 1..Len(sig)}
         ELSE {}

InitVerify ==
  /\ pc = "verify_input"
  /\ signature_key \in SecretPool
  /\ \E result \in ResultPool :
       \E signature \in SignaturePool(result, signature_key) :
         callback_data = CallbackData(signature, result)
  /\ op = Unused
  /\ data = Unused
  /\ token = Unused
  /\ steps = <<>>
  /\ response = Unused
  /\ outcome = Unused
  /\ OthersUnused

ApplyVerify ==
  /\ pc = "verify_input"
  /\ pc' = "verify_done"
  /\ outcome' = ValidateCallbackSignature(callback_data, signature_key)
  /\ UNCHANGED <<op, data, token, steps, response, callback_data, signature_key>>
  /\ UNCHANGED otherVars

NextVerify == ApplyVerify

SpecVerify == InitVerify /\ [][NextVerify]_vars

(***************************************************************************)
(* The legacy variant of the request side (maibapi.py, maibsdk.py) and the *)
(* two variants run on the same input.                                     *)
(***************************************************************************)
\* MAIBAPI.validate_pay_params: statement for statement the checks of
\* MaibApi.__validate_pay_params
LegacyValidatePayParams(d, required_params) ==
  LET missing == CheckRequired(d, required_params)
  IN IF missing.kind # "Ok" THEN missing ELSE FirstFailure(FormatChecks(d))

\* MAIBAPI.validate_access_token: "not token or len(token) == 0"
LegacyValidateAccessToken(tk) ==
  IF Falsy(tk) THEN PaymentException("InvalidToken", "")
  ELSE IF ~HasLen(tk) THEN TypeError
  ELSE Ok

\* MAIBAPI.validate_id_param
LegacyValidateIdParam(entity_id) ==
  IF Falsy(entity_id) THEN PaymentException("MissingId", "")
  ELSE IF ~HasLen(entity_id) THEN TypeError
  ELSE Ok

\* the message of the legacy variant holds the text "$endpoint", not the endpoint
LegacyGatewayError(endpoint, error) ==
  [exc |-> "MaibPaymentException", kind |-> "GatewayError", field |-> "", endpoint |-> "$endpoint",
   code |-> Get(error, "errorCode"), message |-> Get(error, "errorMessage")]

\* MAIBSDK.handle_response
LegacyHandleResponse(resp, endpoint) ==
  IF resp.t # "envelope" THEN AttributeError
  ELSE LET response_ok == Get(resp, "ok")
           response_result == Get(resp, "result")
           response_errors == Get(resp, "errors")
       IN IF response_ok.t = "bool" /\ response_ok.b
          THEN IF ~IsNone(response_result) THEN Return(response_result)
               ELSE MissingResult(endpoint)
          ELSE IF ~IsNone(response_errors)
               THEN IF ~IsList(response_errors) THEN TypeError
                    ELSE IF Len(response_errors.es) = 0 THEN IndexError
                    ELSE IF response_errors.es[1].t # "error" THEN AttributeError
                    ELSE LegacyGatewayError(endpoint, response_errors.es[1])
               ELSE MalformedEnvelope(endpoint)

\* one function of the SDK and one input for it
InitVariants ==
  /\ \/ /\ pc = "compare_validate"
        /\ op \in PayOps
        /\ data \in BagsFrom(ValidBag(op), MaxCallOverrides)
        /\ token = Unused /\ response = Unused
        /\ callback_data = Unused /\ signature_key = Unused
     \/ /\ pc = "compare_token"
        /\ token \in Tokens
        /\ op = Unused /\ data = Unused /\ response = Unused
        /\ callback_data = Unused /\ signature_key = Unused
     \/ /\ pc = "compare_id"
        /\ data \in EntityIds
        /\ op = Unused /\ token = Unused /\ response = Unused
        /\ callback_data = Unused /\ signature_key = Unused
     \/ /\ pc = "compare_envelope"
        /\ op \in Ops
        /\ response \in ResponseBodies
        /\ data = Unused /\ token = Unused
        /\ callback_data = Unused /\ signature_key = Unused
     \/ /\ pc = "compare_verify"
        /\ signature_key \in SecretPool
        /\ \E result \in ResultPool :
             \E signature \in SignaturePool(result, signature_key) :
               callback_data = CallbackData(signature, result)
        /\ op = Unused /\ data = Unused /\ token = Unused /\ response = Unused
  /\ steps = <<>>
  /\ outcome = Unused
  /\ legacy_outcome = Unused
  /\ post_data = Unused
  /\ instance = Unused
  /\ threads = Unused
  /\ created = Unused

CompareValidate ==
  /\ pc = "compare_validate"
  /\ outcome' = ValidatePayParams(data, RequiredParams(op))
  /\ legacy_outcome' = LegacyValidatePayParams(data, RequiredParams(op))
  /\ pc' = "compared"
  /\ steps' = <<"validate_pay_params">>
  /\ UNCHANGED <<op, data, token, response, callback_data, signature_key, post_data, instance, threads, created>>

CompareToken ==
  /\ pc = "compare_token"
  /\ outcome' = ValidateAccessToken(token)
  /\ legacy_outcome' = LegacyValidateAccessToken(token)
  /\ pc' = "compared"
  /\ steps' = <<"validate_access_token">>
  /\ UNCHANGED <<op, data, token, response, callback_data, signature_key, post_data, instance, threads, created>>

CompareId ==
  /\ pc = "compare_id"
  /\ outcome' = ValidateIdParam(data)
  /\ legacy_outcome' = LegacyValidateIdParam(data)
  /\ pc' = "compared"
  /\ steps' = <<"validate_id_param">>
  /\ UNCHANGED <<op, data, token, response, callback_data, signature_key, post_data, instance, threads, created>>

CompareEnvelope ==
  /\ pc = "compare_envelope"
  /\ outcome' = HandleResponse(response, Endpoint(op))
  /\ legacy_outcome' = LegacyHandleResponse(response, Endpoint(op))
  /\ pc' = "compared"
  /\ steps' = <<"handle_response">>
  /\ UNCHANGED <<op, data, token, response, callback_data, signature_key, post_data, instance, threads, created>>

CompareVerify ==
  /\ pc = "compare_verify"
  /\ outcome' = ValidateCallbackSignature(callback_data, signature_key)
  /\ legacy_outcome' = LegacyValidateCallbackSignature(callback_data, signature_key)
  /\ pc' = "compared"
  /\ steps' = <<"validate_callback_signature">>
  /\ UNCHANGED <<op, data, token, response, callback_data, signature_key, post_data, instance, threads, created>>

NextVariants == CompareValidate \/ CompareToken \/ CompareId \/ CompareEnvelope \/ CompareVerify

SpecVariants == InitVariants /\ [][NextVariants]_vars

(***************************************************************************)
(* MAIBAuth.generate_token (maibauth.py) with the transport and the        *)
(* envelope handler of the legacy variant.                                 *)
(***************************************************************************)
TokenException(kind) == [exc |-> "MAIBTokenException", kind |-> kind, field |-> ""]

\* the JSON body of the token request; a key it does not hold is Absent
PostData(projectId, projectSecret, refreshToken) ==
  [projectId |-> projectId, projectSecret |-> projectSecret, refreshToken |-> refreshToken]

\* "post_data = {}" and the two branches that fill it
BuildPostData(project_id, project_secret) ==
  IF ~IsNone(project_id) /\ ~IsNone(project_secret)
  THEN PostData(project_id, project_secret, Absent)
  ELSE IF ~IsNone(project_id) /\ IsNone(project_secret)
  THEN PostData(Absent, Absent, project_id)
  ELSE PostData(Absent, Absent, Absent)

\* "if project_id is None and project_secret is None"
MissingCredentials(project_id, project_secret) == IsNone(project_id) /\ IsNone(project_secret)

\* what requests.request and response.json() can do for MAIBSDK.send_request,
\* which parses the body whatever the status
LegacyTransportBehaviours(bodies) ==
  {[kind |-> "network_failure"], [kind |-> "invalid_json"]}
    \cup {[kind |-> "json", body |-> b] : b \in bodies}

\* MAIBSDK.send_request: an exception of requests, else the parsed JSON
LegacySendRequest(behaviour) ==
  CASE behaviour.kind = "network_failure" -> [raised |-> TRUE]
    [] behaviour.kind = "invalid_json" -> [raised |-> TRUE]
    [] behaviour.kind = "json" -> [raised |-> FALSE, value |-> behaviour.body]

ProjectIds == {None, PyStr(""), PyStr("project")}
ProjectSecrets == {None, PyStr(""), PyStr("secret")}

InitToken ==
  /\ pc = "generate_token"
  /\ data \in {[project_id |-> i, project_secret |-> s] : i \in ProjectIds, s \in ProjectSecrets}
  /\ post_data = Unused
  /\ steps = <<>>
  /\ response = Unused
  /\ outcome = Unused
  /\ op = Unused /\ token = Unused
  /\ callback_data = Unused /\ signature_key = Unused
  /\ legacy_outcome = Unused
  /\ instance = Unused /\ threads = Unused /\ created = Unused

\* the test of the arguments and the construction of the body
BuildTokenRequest ==
  /\ pc = "generate_token"
  /\ steps' = Append(steps, "arguments")
  /\ IF MissingCredentials(data.project_id, data.project_secret)
     THEN pc' = "token_done" /\ outcome' = TokenException("MissingCredentials") /\ UNCHANGED post_data
     ELSE /\ pc' = "token_send"
          /\ post_data' = BuildPostData(data.project_id, data.project_secret)
          /\ UNCHANGED outcome
  /\ UNCHANGED <<op, data, token, response, callback_data, signature_key, legacy_outcome, instance, threads, created>>

\* "self.client.send_request('POST', MAIBSDK.GET_TOKEN, post_data)"
SendTokenRequest ==
  /\ pc = "token_send"
  /\ steps' = Append(steps, "http")
  /\ \E behaviour \in LegacyTransportBehaviours(ResponseBodies) :
       LET r == LegacySendRequest(behaviour)
       IN IF r.raised
          THEN pc' = "token_done" /\ outcome' = TokenException("HttpError") /\ UNCHANGED response
          ELSE pc' = "token_handle" /\ response' = r.value /\ UNCHANGED outcome
  /\ UNCHANGED <<op, data, token, post_data, callback_data, signature_key, legacy_outcome, instance, threads, created>>

\* "self.client.handle_response(response, MAIBSDK.GET_TOKEN)"
HandleTokenResponse ==
  /\ pc = "token_handle"
  /\ steps' = Append(steps, "envelope")
  /\ pc' = "token_done"
  /\ outcome' = LegacyHandleResponse(response, "generate-token")
  /\ UNCHANGED <<op, data, token, post_data, response, callback_data, signature_key, legacy_outcome, instance, threads, created>>

NextToken == BuildTokenRequest \/ SendTokenRequest \/ HandleTokenResponse

SpecToken == InitToken /\ [][NextToken]_vars

(***************************************************************************)
(* MaibSdk.get_instance called from several threads.  The interpreter may  *)
(* switch threads between the test of MaibSdk.__instance, the construction *)
(* of MaibSdk(), the assignment and the read of the return statement.      *)
(* Instances are numbered in the order of their construction.              *)
(***************************************************************************)
Threads == 1..MaxThreads

\* a thread: its position in get_instance, the instance it has constructed and
\* not yet assigned, and the calls it has made
Thread(at, new, calls) == [at |-> at, new |-> new, calls |-> calls]

InitSingleton ==
  /\ pc = "threads"
  /\ instance = None
  /\ created = 0
  /\ threads = [th \in Threads |-> Thread("idle", None, 0)]
  /\ steps = <<>>
  /\ op = Unused /\ data = Unused /\ token = Unused
  /\ response = Unused /\ outcome = Unused
  /\ callback_data = Unused /\ signature_key = Unused
  /\ legacy_outcome = Unused /\ post_data = Unused

\* the variables get_instance does not touch
callVars == <<pc, op, data, token, response, outcome, callback_data, signature_key, legacy_outcome, post_data>>

\* a thread calls get_instance
CallGetInstance(th) ==
  /\ threads[th].at = "idle"
  /\ threads[th].calls < MaxCalls
  /\ threads' = [threads EXCEPT ![th] = Thread("test", None, @.calls + 1)]
  /\ UNCHANGED <<instance, created, steps>>
  /\ UNCHANGED callVars

\* "if MaibSdk.__instance is None"
TestInstance(th) ==
  /\ threads[th].at = "test"
  /\ threads' = [threads EXCEPT ![th].at = IF IsNone(instance) THEN "construct" ELSE "return"]
  /\ UNCHANGED <<instance, created, steps>>
  /\ UNCHANGED callVars

\* "MaibSdk()"
ConstructInstance(th) ==
  /\ threads[th].at = "construct"
  /\ created' = created + 1
  /\ threads' = [threads EXCEPT ![th] = Thread("assign", PyInt(created + 1), @.calls)]
  /\ UNCHANGED <<instance, steps>>
  /\ UNCHANGED callVars

\* "MaibSdk.__instance = ..."
AssignInstance(th) ==
  /\ threads[th].at = "assign"
  /\ instance' = threads[th].new
  /\ threads' = [threads EXCEPT ![th] = Thread("return", None, @.calls)]
  /\ UNCHANGED <<created, steps>>
  /\ UNCHANGED callVars

\* "return MaibSdk.__instance"; steps keeps what the calls have returned
ReturnInstance(th) ==
  /\ threads[th].at = "return"
  /\ steps' = Append(steps, instance)
  /\ threads' = [threads EXCEPT ![th].at = "idle"]
  /\ UNCHANGED <<instance, created>>
  /\ UNCHANGED callVars

NextSingleton ==
  \E th \in Threads :
    \/ CallGetInstance(th)
    \/ TestInstance(th)
    \/ ConstructInstance(th)
    \/ AssignInstance(th)
    \/ ReturnInstance(th)

SpecSingleton == InitSingleton /\ [][NextSingleton]_vars

(***************************************************************************)
(* The rule table of the specification (section 4.1), stated on values: it *)
(* is what the claims below mean by a field conforming to its rule.        *)
(***************************************************************************)
Validated == pc = "validate_done"

\* the field is in the bag with a value other than null
Present(d, f) == d[f].t \notin {"absent", "none"}

StrWithin(v, n) == v.t = "str" /\ Len(v.s) <= n
StrExactly(v, n) == v.t = "str" /\ Len(v.s) = n
NonEmptyStr(v) == v.t = "str" /\ v.s # ""
NumberAtLeast(v, h) == v.t \in {"int", "float"} /\ v.h >= h

ItemSubOrder == <<"id", "name", "price", "quantity">>

SubRuleOk(sub, v) ==
  CASE sub = "id" -> StrWithin(v, 36)
    [] sub = "name" -> StrWithin(v, 128)
    [] sub = "price" -> NumberAtLeast(v, 0)
    [] sub = "quantity" -> v.t = "int" /\ v.h >= 0

\* sub-field k of the element is present and breaks its rule
SubViolated(e, k) == Present(e, ItemSubOrder[k]) /\ ~SubRuleOk(ItemSubOrder[k], e[ItemSubOrder[k]])

ElemRuleOk(e) == e.t = "dict" /\ \A k \in 1..Len(ItemSubOrder) : ~SubViolated(e, k)

RuleOk(f, v) ==
  CASE f = "billerId" -> StrExactly(v, 36)
    [] f = "billerExpiry" -> StrExactly(v, 4)
    [] f = "payId" -> StrWithin(v, 36)
    [] f = "confirmAmount" -> NumberAtLeast(v, 1)
    [] f = "amount" -> NumberAtLeast(v, 100)
    [] f = "refundAmount" -> NumberAtLeast(v, 1)
    [] f = "currency" -> v.t = "str" /\ v.s \in {"MDL", "EUR", "USD"}
    [] f = "clientIp" -> NonEmptyStr(v)
    [] f = "language" -> StrExactly(v, 2)
    [] f = "description" -> StrWithin(v, 124)
    [] f = "clientName" -> StrWithin(v, 128)
    [] f = "email" -> NonEmptyStr(v)
    [] f = "phone" -> StrWithin(v, 40)
    [] f = "orderId" -> StrWithin(v, 36)
    [] f = "delivery" -> NumberAtLeast(v, 0)
    [] f = "items" -> v.t = "list" /\ Len(v.es) > 0 /\ \A i \in 1..Len(v.es) : ElemRuleOk(v.es[i])
    [] f \in {"callbackUrl", "okUrl", "failUrl"} -> NonEmptyStr(v)

\* positions in FieldOrder of the present fields that break their rule
Violations(d) == {i \in 1..Len(FieldOrder) : Present(d, FieldOrder[i]) /\ ~RuleOk(FieldOrder[i], d[FieldOrder[i]])}

\* positions in the required list of the fields that are absent or null
MissingOf(d, req) == {i \in 1..Len(req) : ~Present(d, req[i])}

\* every element of a present items list is a mapping
ItemsAreMappings(d) ==
  (Present(d, "items") /\ d["items"].t = "list") => \A i \in 1..Len(d["items"].es) : d["items"].es[i].t = "dict"

\* the top-level field an outcome names
FieldOf(o) == IF o.field \in {"items.id", "items.name", "items.price", "items.quantity"} THEN "items" ELSE o.field

(***************************************************************************)
(* C2: a bag with a required field absent or null fails with               *)
(* MissingParameter naming the first such field of the required list,      *)
(* whatever the other fields hold.                                         *)
(***************************************************************************)
C2_FirstMissingRequiredReported ==
  Validated =>
    LET req == RequiredParams(op)
        missing == MissingOf(data, req)
    IN missing # {} => outcome = Missing(req[Min(missing)])

\* a later required field is missing while an earlier-checked field is malformed
C2_Witness ==
  /\ Validated
  /\ \E i \in MissingOf(data, RequiredParams(op)) : i > 1
  /\ Violations(data) # {}
  /\ outcome.kind = "MissingParameter"

(***************************************************************************)
(* C3: with all required fields present and two or more present fields     *)
(* breaking their rule, validation reports one InvalidParameter, for the   *)
(* violating field that comes first in the fixed order.                    *)
(***************************************************************************)
C3_FirstViolationReported ==
  (Validated /\ MissingOf(data, RequiredParams(op)) = {} /\ ItemsAreMappings(data)
     /\ Cardinality(Violations(data)) >= 2)
    => /\ outcome.kind = "InvalidParameter"
       /\ FieldOf(outcome) = FieldOrder[Min(Violations(data))]

(***************************************************************************)
(* C4: validation returns Ok exactly when every required field is present  *)
(* and non-null and every present, non-null field of the rule table        *)
(* satisfies its rule.                                                     *)
(***************************************************************************)
C4_OkIffConforms ==
  Validated =>
    (outcome = Ok <=> (MissingOf(data, RequiredParams(op)) = {} /\ Violations(data) = {}))

(***************************************************************************)
(* C5: clientIp, email, callbackUrl, okUrl and failUrl present with the    *)
(* empty string or a non-string value fail with InvalidParameter for that  *)
(* field (here: when it is the first field to break a rule); a non-empty   *)
(* string is accepted.                                                     *)
(***************************************************************************)
FreeFormFields == {"clientIp", "email", "callbackUrl", "okUrl", "failUrl"}

C5_EmptyStringRejected ==
  (Validated /\ MissingOf(data, RequiredParams(op)) = {}) =>
    \A i \in 1..Len(FieldOrder) :
      (FieldOrder[i] \in FreeFormFields /\ Present(data, FieldOrder[i])) =>
        IF NonEmptyStr(data[FieldOrder[i]])
        THEN outcome # Invalid(FieldOrder[i])
        ELSE (i = Min(Violations(data)) => outcome = Invalid(FieldOrder[i]))

(***************************************************************************)
(* Numeric fields with a minimum bound, over multiples of 0.01.            *)
(***************************************************************************)
BoundedFields == {"confirmAmount", "amount", "refundAmount", "delivery"}

\* the bound in hundredths
MinBound(f) ==
  CASE f \in {"confirmAmount", "refundAmount"} -> 1
    [] f = "amount" -> 100
    [] f = "delivery" -> 0

\* sub-fields of an items list are ranked in scan order: element by element,
\* within an element in ItemSubOrder; the element and the sub-field of rank r
ElemOfRank(r) == ((r - 1) \div Len(ItemSubOrder)) + 1
SubOfRank(r) == ((r - 1) % Len(ItemSubOrder)) + 1

\* ranks of the sub-fields of mapping elements that are present and break their rule
ItemViolations(es) ==
  {r \in 1..(Len(es) * Len(ItemSubOrder)) :
     es[ElemOfRank(r)].t = "dict" /\ SubViolated(es[ElemOfRank(r)], SubOfRank(r))}

\* the items list of the bag when it is a list of mappings, else the empty list
MappingItems(d) ==
  IF Present(d, "items") /\ d["items"].t = "list" /\ ItemsAreMappings(d) THEN d["items"].es ELSE <<>>

\* no required field is missing and no field before position i breaks its rule
ReachesField(d, req, i) ==
  MissingOf(d, req) = {} /\ \A j \in Violations(d) : j >= i

ItemsPos == CHOOSE i \in 1..Len(FieldOrder) : FieldOrder[i] = "items"

\* C6 as written: below the bound InvalidParameter for the field, and every
\* multiple of 0.01 at or above the bound passes the rule, quantity included
C6_BoundOverAllHundredths ==
  Validated =>
    /\ \A i \in 1..Len(FieldOrder) :
         (FieldOrder[i] \in BoundedFields /\ Present(data, FieldOrder[i]) /\ IsNumber(data[FieldOrder[i]])) =>
           IF data[FieldOrder[i]].h < MinBound(FieldOrder[i])
           THEN ReachesField(data, RequiredParams(op), i) => outcome = Invalid(FieldOrder[i])
           ELSE outcome # Invalid(FieldOrder[i])
    /\ LET es == MappingItems(data)
       IN \A r \in 1..(Len(es) * Len(ItemSubOrder)) :
            LET e == es[ElemOfRank(r)]
                sub == ItemSubOrder[SubOfRank(r)]
            IN (sub \in {"price", "quantity"} /\ Present(e, sub) /\ IsNumber(e[sub])) =>
                 IF e[sub].h < 0
                 THEN (ReachesField(data, RequiredParams(op), ItemsPos) /\ r = Min(ItemViolations(es)))
                        => outcome = Invalid("items." \o sub)
                 ELSE (IF sub = "price" THEN CheckItemPrice(e) ELSE CheckItemQuantity(e)) = Ok

(***************************************************************************)
(* C6 (amended): as above, with items[].quantity taken over integer values *)
(* only.  A value strictly below the bound makes validation fail with      *)
(* InvalidParameter for the field when the required fields are present and *)
(* nothing earlier in the scan breaks a rule; the bound and every larger   *)
(* value pass the field's rule.                                            *)
(***************************************************************************)
C6_BoundRespected ==
  Validated =>
    /\ \A i \in 1..Len(FieldOrder) :
         (FieldOrder[i] \in BoundedFields /\ Present(data, FieldOrder[i]) /\ IsNumber(data[FieldOrder[i]])) =>
           IF data[FieldOrder[i]].h < MinBound(FieldOrder[i])
           THEN ReachesField(data, RequiredParams(op), i) => outcome = Invalid(FieldOrder[i])
           ELSE outcome # Invalid(FieldOrder[i])
    /\ LET es == MappingItems(data)
       IN \A r \in 1..(Len(es) * Len(ItemSubOrder)) :
            LET e == es[ElemOfRank(r)]
                sub == ItemSubOrder[SubOfRank(r)]
            IN (sub \in {"price", "quantity"} /\ Present(e, sub) /\ IsNumber(e[sub])
                  /\ (sub = "quantity" => e[sub].t = "int")) =>
                 IF e[sub].h < 0
                 THEN (ReachesField(data, RequiredParams(op), ItemsPos) /\ r = Min(ItemViolations(es)))
                        => outcome = Invalid("items." \o sub)
                 ELSE (IF sub = "price" THEN CheckItemPrice(e) ELSE CheckItemQuantity(e)) = Ok

\* amount at its bound passes while a delivery fee below its bound is reported
C6_Witness ==
  /\ Validated
  /\ Present(data, "amount") /\ IsNumber(data["amount"]) /\ data["amount"].h = MinBound("amount")
  /\ Present(data, "delivery") /\ IsNumber(data["delivery"]) /\ data["delivery"].h = MinBound("delivery") - 1
  /\ outcome = Invalid("delivery")

(***************************************************************************)
(* C7: a currency outside {MDL, EUR, USD} (any case, any type) makes       *)
(* validation fail whatever the other fields hold; with the required       *)
(* fields present and the six fields checked before it conforming, the     *)
(* failure is InvalidParameter for currency.                               *)
(***************************************************************************)
CurrencyPos == CHOOSE i \in 1..Len(FieldOrder) : FieldOrder[i] = "currency"

C7_CurrencyOutsideSetFails ==
  (Validated /\ Present(data, "currency") /\ ~RuleOk("currency", data["currency"])) =>
    /\ outcome.exc = "MaibPaymentException"
    /\ outcome.kind \in {"MissingParameter", "InvalidParameter"}
    /\ ReachesField(data, RequiredParams(op), CurrencyPos) => outcome = Invalid("currency")

\* a lower-case spelling is rejected although a later field is malformed too
C7_Witness ==
  /\ Validated
  /\ data["currency"] = PyStr("mdl")
  /\ \E j \in Violations(data) : j > CurrencyPos
  /\ outcome = Invalid("currency")

(***************************************************************************)
(* C8: with the required fields present and every field before items       *)
(* conforming, an empty items list fails with InvalidParameter for items;  *)
(* a non-empty list of mappings fails with InvalidParameter for the first  *)
(* violation in scan order (elements in sequence order, sub-fields in the  *)
(* order id, name, price, quantity); absent sub-fields are skipped, so a   *)
(* list without violations passes the items rule.                          *)
(***************************************************************************)
C8_ItemsScanOrder ==
  (Validated /\ ReachesField(data, RequiredParams(op), ItemsPos)
     /\ Present(data, "items") /\ data["items"].t = "list" /\ ItemsAreMappings(data)) =>
    LET es == data["items"].es
    IN IF Len(es) = 0 THEN outcome = Invalid("items")
       ELSE IF ItemViolations(es) # {}
            THEN outcome = Invalid("items." \o ItemSubOrder[SubOfRank(Min(ItemViolations(es)))])
            ELSE FieldOf(outcome) # "items"

\* an element without sub-fields is passed over and the next element's first violation is reported
C8_Witness ==
  /\ Validated
  /\ Present(data, "items") /\ data["items"].t = "list" /\ Len(data["items"].es) = 2
  /\ data["items"].es[1] = NoSub
  /\ Cardinality(ItemViolations(data["items"].es)) = 2
  /\ outcome = Invalid("items.name")

(***************************************************************************)
(* C1: one call validates the bag (or the id), then checks the token, then *)
(* dispatches at most one HTTP request, then handles the envelope.  The    *)
(* transport is reached only after validation passed and with a non-empty  *)
(* string token; otherwise nothing is sent and the error is that of the    *)
(* first failing step.                                                     *)
(***************************************************************************)
StepOrder == <<"validate", "token", "http", "envelope">>

\* what the first step of the running call finds
ValidationOutcome ==
  IF op \in PayOps THEN ValidatePayParams(data, RequiredParams(op)) ELSE ValidateIdParam(data)

InCall == pc \in {"validate", "token", "send", "handle", "done"}

C1_StepOrderAndGate ==
  InCall =>
    /\ Len(steps) <= Len(StepOrder) /\ steps = SubSeq(StepOrder, 1, Len(steps))
    /\ (\E i \in 1..Len(steps) : steps[i] = "http") =>
         (ValidationOutcome = Ok /\ token.t = "str" /\ token.s # "")
    /\ (pc = "done" /\ ValidationOutcome # Ok) =>
         (steps = <<"validate">> /\ outcome = InvalidRequest(ValidationOutcome))
    /\ (pc = "done" /\ ValidationOutcome = Ok /\ (token.t = "none" \/ token = PyStr(""))) =>
         (steps = <<"validate", "token">> /\ outcome = InvalidRequest(PaymentException("InvalidToken", "")))

\* an invalid bag with an empty token: the parameter error is reported, nothing is sent
C1_Witness ==
  /\ pc = "done"
  /\ op \in PayOps
  /\ token = PyStr("")
  /\ steps = <<"validate">>
  /\ outcome.kind = "InvalidRequest" /\ outcome.cause.kind = "InvalidParameter"

(***************************************************************************)
(* C9: for a non-empty result, signature and secret, the verifier returns  *)
(* true exactly when the signature is the gateway's signature of the       *)
(* result under the secret, and its outcome is the same for every          *)
(* insertion order of the same keys and values.                            *)
(***************************************************************************)
Verified == pc = "verify_done"

\* the callback holds a non-empty result mapping and a non-empty signature
\* string, and the secret is a non-empty string
FullCallback ==
  /\ callback_data.result.t = "mapping" /\ callback_data.result.items # <<>>
  /\ callback_data.signature.t = "text" /\ callback_data.signature.s # <<>>
  /\ signature_key.t = "text" /\ signature_key.s # <<>>

\* the orders the entries of a mapping can have been inserted in
Reorderings(items) ==
  {[i \in 1..Len(items) |-> items[p[i]]] :
     p \in {q \in [1..Len(items) -> 1..Len(items)] : \A i, j \in 1..Len(items) : i # j => q[i] # q[j]}}

C9_TrueIffGatewaySignature ==
  (Verified /\ FullCallback) =>
    /\ outcome = Return(TRUE)
         <=> callback_data.signature.s = GatewaySignature(callback_data.result.items, signature_key.s)
    /\ \A items \in Reorderings(callback_data.result.items) :
         ValidateCallbackSignature(CallbackData(callback_data.signature, Mapping(items)), signature_key) = outcome

\* a genuine signature verifies although the entries arrive out of key order
\* and one value is null
C9_Witness ==
  /\ Verified /\ FullCallback
  /\ Len(callback_data.result.items) = 2
  /\ TextLess(callback_data.result.items[2][1].s, callback_data.result.items[1][1].s)
  /\ callback_data.result.items[1][2].t = "none"
  /\ callback_data.result.items[2][2] = PyText(<<"x">>)
  /\ outcome = Return(TRUE)

(***************************************************************************)
(* C10: a signature that differs from a verifying one in exactly one       *)
(* character makes the verifier return false; it does not raise.           *)
(***************************************************************************)
\* s and s2 have the same length and differ at exactly one position
OneCharApart(s, s2) ==
  Len(s) = Len(s2) /\ Cardinality({i \in 1..Len(s) : s[i] # s2[i]}) = 1

C10_AlteredSignatureReturnsFalse ==
  (Verified /\ FullCallback) =>
    LET good == GatewaySignature(callback_data.result.items, signature_key.s)
    IN (ValidateCallbackSignature(CallbackData(PyText(good), callback_data.result), signature_key) = Return(TRUE)
          /\ OneCharApart(good, callback_data.signature.s))
         => outcome = Return(FALSE)

(***************************************************************************)
(* C11: the verifier fails with MissingSignatureData whenever the secret,  *)
(* the signature or the result is absent or empty, and returns a boolean   *)
(* in every other case.                                                    *)
(***************************************************************************)
\* the secret, the signature or the result is absent or empty
SignatureDataMissing ==
  \/ FalsyCallbackValue(signature_key)
  \/ FalsyCallbackValue(callback_data.signature)
  \/ FalsyCallbackValue(callback_data.result)

\* the errors the verifier raises before it computes anything ("Invalid
\* signature key", "Missing result or signature in callback data.")
IsMissingSignatureData(o) ==
  o.exc = "MaibPaymentException" /\ o.kind \in {"InvalidSignatureKey", "MissingSignatureData"}

\* C11: with the secret, the signature or the result absent or empty the
\* verifier fails with MissingSignatureData, otherwise it returns a boolean
C11_MissingDataOrBoolean ==
  Verified =>
    IF SignatureDataMissing THEN IsMissingSignatureData(outcome)
    ELSE outcome \in {Return(TRUE), Return(FALSE)}

\* C11, its first half alone: what is missing is reported as missing
C11_MissingDataReported ==
  (Verified /\ SignatureDataMissing) => IsMissingSignatureData(outcome)

(***************************************************************************)
(* C12: an envelope with ok true and a result gives that result; one with  *)
(* ok false or absent and a non-empty errors array gives GatewayError with *)
(* the code and message of errors[0], whatever follows it in the array.    *)
(***************************************************************************)
\* handle_response has run on a JSON envelope
Handled ==
  /\ pc = "done"
  /\ steps # <<>> /\ steps[Len(steps)] = "envelope"
  /\ response.t = "envelope"

\* what handle_response returned or raised, before the entry point wrapped it
HandleOutcome == IF outcome.kind = "InvalidRequest" THEN outcome.cause ELSE outcome

OkTrue == response.ok = PyBool(TRUE)
OkFalseOrAbsent == response.ok \in {PyBool(FALSE), Absent}
ResultPresent == response.result.t \notin {"absent", "none"}
ErrorsPresent == response.errors.t \notin {"absent", "none"}
ErrorsNonEmpty == response.errors.t = "list" /\ response.errors.es # <<>>

\* what may follow the first error in the array
ErrorTails == {<<>>, <<E1>>, <<E2>>, <<E2, E1>>}

\* C12: ok true with a result returns the result unchanged; ok false or absent
\* with a non-empty errors array raises GatewayError of errors[0], and the rest
\* of the array makes no difference
C12_ResultOrFirstError ==
  Handled =>
    /\ (OkTrue /\ ResultPresent) => outcome = Return(response.result)
    /\ (OkFalseOrAbsent /\ ErrorsNonEmpty) =>
         /\ HandleOutcome.exc = "MaibPaymentException"
         /\ HandleOutcome.kind = "GatewayError"
         /\ HandleOutcome.code = response.errors.es[1].errorCode
         /\ HandleOutcome.message = response.errors.es[1].errorMessage
         /\ \A rest \in ErrorTails :
              HandleResponse([response EXCEPT !.errors = PyList(<<response.errors.es[1]>> \o rest)],
                             Endpoint(op)) = HandleOutcome

\* the envelope {ok: false, errors: [E1, E2]} has raised GatewayError("E1", "bad")
C12_Witness ==
  /\ Handled
  /\ response.ok = PyBool(FALSE)
  /\ response.errors = PyList(<<E1, E2>>)
  /\ HandleOutcome.kind = "GatewayError"
  /\ HandleOutcome.code = PyStr("E1") /\ HandleOutcome.message = PyStr("bad")

(***************************************************************************)
(* C13: whatever the shape of the envelope, handle_response returns the    *)
(* result or fails with ProtocolError or GatewayError.                     *)
(***************************************************************************)
\* ProtocolError("missing result") and ProtocolError("malformed envelope")
ProtocolKinds == {"MissingResult", "MalformedEnvelope"}

\* the two shapes that are not protocol violations
WellFormedEnvelope ==
  \/ OkTrue /\ ResultPresent
  \/ OkFalseOrAbsent /\ ErrorsPresent

\* C13: for every envelope shape handle_response returns the result or raises
\* ProtocolError or GatewayError: ok true without result is "missing result",
\* neither result nor errors is "malformed envelope", and every shape that is
\* not well formed is a protocol violation
C13_EveryShapeClassified ==
  Handled =>
    /\ \/ HandleOutcome = Return(response.result)
       \/ /\ HandleOutcome.exc = "MaibPaymentException"
          /\ HandleOutcome.kind \in ProtocolKinds \cup {"GatewayError"}
    /\ (OkTrue /\ ~ResultPresent) => HandleOutcome.kind = "MissingResult"
    /\ (~OkTrue /\ ~ResultPresent /\ ~ErrorsPresent) => HandleOutcome.kind = "MalformedEnvelope"
    /\ ~WellFormedEnvelope => HandleOutcome.kind \in ProtocolKinds

\* C13 on the envelopes whose errors array, when present, is not empty and
\* whose ok, when present, is a boolean
C13_ClassifiedUnlessEmptyErrorsOrOddOk ==
  (Handled /\ (ErrorsPresent => ErrorsNonEmpty) /\ response.ok.t \in {"bool", "absent"})
    => C13_EveryShapeClassified

(***************************************************************************)
(* C14: once validation and the token check have passed, the call ends     *)
(* with the envelope's result or with a MaibPaymentException that names    *)
(* the endpoint, whatever the transport does.                              *)
(***************************************************************************)
\* the call has ended after its request was handed to the transport
Dispatched ==
  /\ pc = "done"
  /\ \E i \in 1..Len(steps) : steps[i] = "http"

\* the transport answered with a status that is not a success: send_request
\* returned None
NonSuccessStatus == response.t = "none"

\* C14: a dispatched call ends with the result of the envelope or with a
\* MaibPaymentException naming the endpoint; a network failure or a
\* non-success status gives neither a result nor any other kind of error
C14_ResultOrClassifiedError ==
  Dispatched =>
    \/ /\ outcome.kind = "Return"
       /\ response.t = "envelope"
       /\ outcome.value = response.result
    \/ /\ outcome.exc = "MaibPaymentException"
       /\ outcome.kind = "InvalidRequest"
       /\ outcome.cause.endpoint = Endpoint(op)

\* C14 on the calls the transport answered with a success status and an
\* envelope whose errors array, when present, is not empty, or did not answer
C14_ClassifiedUnlessNonSuccessOrEmptyErrors ==
  (Dispatched /\ ~NonSuccessStatus /\ (response.t = "envelope" => (ErrorsPresent => ErrorsNonEmpty)))
    => C14_ResultOrClassifiedError

(***************************************************************************)
(* C15: two notifications that verify with the same signature under the    *)
(* same secret.                                                            *)
(***************************************************************************)
\* the result mappings a second notification may carry
OtherResults == {r \in ResultPool : r.t = "mapping"}

\* the notification with the same signature and the result r verifies too
AlsoVerifies(r) ==
  ValidateCallbackSignature(CallbackData(callback_data.signature, r), signature_key) = Return(TRUE)

\* the same field names with the same values
SameMapping(items, items2) ==
  {items[i] : i \in 1..Len(items)} = {items2[i] : i \in 1..Len(items2)}

\* the values in key order, null as the empty string, each followed by ':'
SignedText(items) == GatewayPrefix(items, Len(items))

\* C15 as written: two notifications that verify with the same signature have
\* equal result mappings, the same field names with the same values
C15_SameSignatureSameResult ==
  (Verified /\ outcome = Return(TRUE)) =>
    \A r \in OtherResults :
      AlsoVerifies(r) => SameMapping(r.items, callback_data.result.items)

\* C15 as amended: two notifications that verify with the same signature have
\* results whose values, in key order and with null as the empty string, join
\* to the same text
C15_SameSignatureSameSignedText ==
  (Verified /\ outcome = Return(TRUE)) =>
    \A r \in OtherResults :
      AlsoVerifies(r) => SignedText(r.items) = SignedText(callback_data.result.items)

\* a notification verifies, and so does one with another field name
C15_Witness ==
  /\ Verified /\ outcome = Return(TRUE)
  /\ Len(callback_data.result.items) = 1
  /\ \E r \in OtherResults :
       /\ AlsoVerifies(r)
       /\ Len(r.items) = 1
       /\ r.items[1][1] # callback_data.result.items[1][1]
       /\ r.items[1][2] = callback_data.result.items[1][2]

(***************************************************************************)
(* C16: the two variants of the SDK give the same outcome on every input.  *)
(***************************************************************************)
Compared == pc = "compared"

\* the kind of an outcome; the two messages about missing signature data are
\* one kind
KindOf(o) == IF IsMissingSignatureData(o) THEN "MissingSignatureData" ELSE o.kind

\* the same return value, or an error of the same kind about the same field
SameOutcome(o, o2) ==
  /\ o.exc = o2.exc
  /\ KindOf(o) = KindOf(o2)
  /\ o.kind = "Return" => o.value = o2.value
  /\ o.kind # "Return" => o.field = o2.field

\* C16: request validation, the token and id checks, envelope handling and
\* callback signature verification give the same outcome in both variants
C16_VariantsAgree == Compared => SameOutcome(outcome, legacy_outcome)

\* C16 on every function but the callback verifier
C16_VariantsAgreeOutsideVerifier ==
  (Compared /\ steps # <<"validate_callback_signature">>) => SameOutcome(outcome, legacy_outcome)

(***************************************************************************)
(* C17: validation is total: it ends with Ok, MissingParameter or          *)
(* InvalidParameter on every bag.                                          *)
(***************************************************************************)
\* the items list of the bag holds an element that is not a mapping
HasNonMappingItem ==
  /\ data["items"].t = "list"
  /\ \E i \in 1..Len(data["items"].es) : data["items"].es[i].t # "dict"

\* C17: for every operation and every bag, also with items that are not
\* mappings and values of unexpected types, validation ends with Ok,
\* MissingParameter or InvalidParameter
C17_ValidateTotal ==
  Validated =>
    \/ outcome = Ok
    \/ /\ outcome.exc = "MaibPaymentException"
       /\ outcome.kind \in {"MissingParameter", "InvalidParameter"}

\* C17 on the bags whose items are all mappings
C17_TotalOverMappingItems ==
  (Validated /\ ~HasNonMappingItem) => C17_ValidateTotal

(***************************************************************************)
(* C18: generate_token sends a request only with a body that holds         *)
(* projectId and projectSecret, or refreshToken alone.                     *)
(***************************************************************************)
TokenRequestSent == \E i \in 1..Len(steps) : steps[i] = "http"

Holds(body, key) == body[key].t # "absent"

\* projectId together with projectSecret, or refreshToken alone
CredentialsBody(body) ==
  \/ Holds(body, "projectId") /\ Holds(body, "projectSecret") /\ ~Holds(body, "refreshToken")
  \/ Holds(body, "refreshToken") /\ ~Holds(body, "projectId") /\ ~Holds(body, "projectSecret")

\* the argument combinations the claim accepts: a project id with a project
\* secret, or a project id alone (the refresh token)
AcceptedArguments == ~IsNone(data.project_id)

\* C18: a request is sent only with a credentials body; for every other
\* argument combination the call raises MAIBTokenException and sends nothing
C18_NoEmptyBodyDispatched ==
  /\ TokenRequestSent => CredentialsBody(post_data)
  /\ (pc = "token_done" /\ ~AcceptedArguments) =>
       /\ outcome.exc = "MAIBTokenException"
       /\ ~TokenRequestSent

\* C18 on the calls that give a project id or no argument at all
C18_HoldsUnlessSecretWithoutId ==
  (IsNone(data.project_id) => IsNone(data.project_secret)) => C18_NoEmptyBodyDispatched

(***************************************************************************)
(* C19: get_instance creates at most one instance and every call returns   *)
(* that instance, whatever the interleaving of the calling threads.        *)
(***************************************************************************)
\* C19: at most one MaibSdk instance is ever created by get_instance
C19_AtMostOneInstance == pc = "threads" => created <= 1

\* C19, its second half: every call returns the same instance
C19_SameInstanceReturned ==
  pc = "threads" => \A i, j \in 1..Len(steps) : steps[i] = steps[j]

\* C19: one instance at most, returned by every call
C19_Singleton == C19_AtMostOneInstance /\ C19_SameInstanceReturned

====
